---- MODULE Spec2Model ----
(***************************************************************************)
(* A model of src/src/email.ts: the Email class that composes the MIME     *)
(* payload of a message (constructor, toUsers, getEmailData and the        *)
(* resolve* steps, getMimeType, generateSafeBoundary, wrapText) and its    *)
(* completion promise (sent / setSent / setSentError).                     *)
(*                                                                         *)
(* A JavaScript string is a sequence of one-character strings, so that     *)
(* splitting, wrapping, chunking, prefix and substring tests are computed. *)
(* The payload (emailData) is kept as the sequence of its CRLF-terminated  *)
(* lines: every statement of getEmailData appends whole lines, and the     *)
(* strings drawn here hold no line terminator outside `text`, whose        *)
(* whitespace wrapText removes.  Characters are ASCII, where the UTF-8     *)
(* bytes of a string are its character codes.  Header keys are not         *)
(* integer-like, so Object.entries lists them in insertion order.  The     *)
(* clock has the resolution of toUTCString, one second, and one            *)
(* getEmailData call reads it within one second.  dsnOverride is passed    *)
(* through unread and left out.                                            *)
(***************************************************************************)
EXTENDS Integers, Sequences, FiniteSets, TLC

VARIABLES
    phase,      \* "new": before `new Email(options)`; "live"; "threw"
    options,    \* the EmailOptions handed to the constructor
    email,      \* the readonly fields of the Email
    headers,    \* this.headers: ordered map, a sequence of [key, value]
    sent,       \* the promise `sent`
    settles,    \* what the first setSent / setSentError call was
    now,        \* the clock, in seconds since the epoch
    ncalls,     \* number of getEmailData calls made
    first,      \* outcome of the first getEmailData call
    last,       \* outcome of the latest getEmailData call
    arg,        \* argument of a function applied on its own
    ret         \* its result

vars == <<phase, options, email, headers, sent, settles, now, ncalls, first, last, arg, ret>>

---------------------------------------------------------------------------
(* Bounds of the model *)

\* getEmailData calls made on one Email
MaxCalls == 2
\* seconds the clock may advance
MaxTime == 1
\* length of the texts handed to wrapText on its own
MaxLen == 5
\* largest line limit handed to wrapText on its own
MaxLimit == 3

---------------------------------------------------------------------------
(* JavaScript values *)

Undefined == [kind |-> "undefined"]
Str(s) == [kind |-> "string", s |-> s]
Arr(items) == [kind |-> "array", items |-> items]
\* type User = { name?: string; email: string }
User(name, mail) == [kind |-> "object", name |-> name, email |-> mail]
Attachment(filename, content, mimeType) ==
    [filename |-> filename, content |-> content, mimeType |-> mimeType]
HeaderMap(entries) == [kind |-> "object", entries |-> entries]
Entry(key, value) == [key |-> key, value |-> value]

\* ToBoolean: undefined and the empty string are falsy, objects and arrays truthy
Truthy(v) ==
    CASE v.kind = "undefined" -> FALSE
      [] v.kind = "string" -> v.s # <<>>
      [] OTHER -> TRUE

Min(a, b) == IF a < b THEN a ELSE b

\* String.prototype.concat over a list of strings
RECURSIVE Cat(_)
Cat(ss) == IF ss = <<>> THEN <<>> ELSE Head(ss) \o Cat(Tail(ss))

\* Array.prototype.join
RECURSIVE Join(_, _)
Join(ss, sep) ==
    IF ss = <<>> THEN <<>>
    ELSE IF Len(ss) = 1 THEN ss[1]
    ELSE ss[1] \o sep \o Join(Tail(ss), sep)

\* the k-th smallest element of a finite set of integers
Nth(P, k) == CHOOSE p \in P : Cardinality({q \in P : q < p}) = k - 1

\* String.prototype.split(sep) for a one-character separator
Split(s, sep) ==
    LET cuts == {i \in 1..Len(s) : s[i] = sep}
        n == Cardinality(cuts)
        lo(k) == IF k = 1 THEN 1 ELSE Nth(cuts, k - 1) + 1
        hi(k) == IF k = n + 1 THEN Len(s) ELSE Nth(cuts, k) - 1
    IN  [k \in 1..(n + 1) |-> SubSeq(s, lo(k), hi(k))]

\* Array.prototype.pop of a non-empty array: its last element
Pop(a) == a[Len(a)]

HasPrefix(s, p) == Len(p) <= Len(s) /\ SubSeq(s, 1, Len(p)) = p
\* String.prototype.includes
Includes(s, p) == \E i \in 0..(Len(s) - Len(p)) : SubSeq(s, i + 1, i + Len(p)) = p

UpperCase == <<"A","B","C","D","E","F","G","H","I","J","K","L","M","N","O","P","Q","R","S","T","U","V","W","X","Y","Z">>
LowerCase == <<"a","b","c","d","e","f","g","h","i","j","k","l","m","n","o","p","q","r","s","t","u","v","w","x","y","z">>
\* String.prototype.toLowerCase on ASCII
toLowerCase(s) ==
    [i \in 1..Len(s) |->
        IF \E k \in 1..26 : UpperCase[k] = s[i]
        THEN LowerCase[CHOOSE k \in 1..26 : UpperCase[k] = s[i]]
        ELSE s[i]]

\* the printable ASCII characters, codes 32 to 126 ("GRAVE" stands for code 96)
Printable == <<" ","!","\"","#","$","%","&","'","(",")","*","+",",","-",".","/","0","1","2","3","4","5","6","7","8","9",":",";","<","=",">","?","@","A","B","C","D","E","F","G","H","I","J","K","L","M","N","O","P","Q","R","S","T","U","V","W","X","Y","Z","[","\\","]","^","_","GRAVE","a","b","c","d","e","f","g","h","i","j","k","l","m","n","o","p","q","r","s","t","u","v","w","x","y","z","{","|","}","~">>
Ord(c) == 31 + (CHOOSE i \in 1..Len(Printable) : Printable[i] = c)
Base64Alphabet == <<"A","B","C","D","E","F","G","H","I","J","K","L","M","N","O","P","Q","R","S","T","U","V","W","X","Y","Z","a","b","c","d","e","f","g","h","i","j","k","l","m","n","o","p","q","r","s","t","u","v","w","x","y","z","0","1","2","3","4","5","6","7","8","9","+","/">>

\* Buffer.from(s, 'utf8').toString('base64')
base64(s) ==
    LET n == Len(s)
        byte(i) == IF i <= n THEN Ord(s[i]) ELSE 0
        group(g) == byte(3 * g - 2) * 65536 + byte(3 * g - 1) * 256 + byte(3 * g)
        sextet(g, j) == (group(g) \div (64 ^ (4 - j))) % 64
        groups == (n + 2) \div 3
        pad == (3 - (n % 3)) % 3
    IN  [k \in 1..(4 * groups) |->
            IF k > 4 * groups - pad THEN "="
            ELSE Base64Alphabet[sextet(((k - 1) \div 4) + 1, ((k - 1) % 4) + 1) + 1]]

\* new Date(t * 1000).toUTCString(), for t < 10
toUTCString(t) == <<"T","h","u",","," ","0","1"," ","J","a","n"," ","1","9","7","0"," ","0","0",":","0","0",":","0">> \o <<<<"0","1","2","3","4","5","6","7","8","9">>[t + 1]>> \o <<" ","G","M","T">>

---------------------------------------------------------------------------
(* The Email class *)

constructorThrowsOnAbsent(o) == o.text.kind = "undefined" /\ o.html.kind = "undefined"

\* constructor, lines 69-71: the only validated precondition
constructorThrows(o) == ~Truthy(o.text) /\ ~Truthy(o.html)

\* toUsers: string | string[] | User | User[] | undefined -> User[] | undefined
toUsers(user) ==
    IF ~Truthy(user) THEN Undefined
    ELSE IF user.kind = "string" THEN Arr(<<User(Undefined, user.s)>>)
    ELSE IF user.kind = "array"
         THEN Arr([i \in 1..Len(user.items) |->
                     IF user.items[i].kind = "string"
                     THEN User(Undefined, user.items[i].s)
                     ELSE user.items[i]])
    ELSE Arr(<<user>>)

\* the fields the constructor assigns, headers apart
construct(o) ==
    [from |-> IF o.from.kind = "string" THEN User(Undefined, o.from.s) ELSE o.from,
     reply |-> IF o.reply.kind = "string" THEN User(Undefined, o.reply.s) ELSE o.reply,
     to |-> toUsers(o.to),
     cc |-> toUsers(o.cc),
     bcc |-> toUsers(o.bcc),
     subject |-> o.subject,
     text |-> o.text,
     html |-> o.html,
     attachments |-> o.attachments]

\* this.headers = options.headers || {}
constructHeaders(o) == IF Truthy(o.headers) THEN o.headers.entries ELSE <<>>

\* the fields before construction
NoEmail ==
    [from |-> Undefined, reply |-> Undefined, to |-> Undefined, cc |-> Undefined,
     bcc |-> Undefined, subject |-> <<>>, text |-> Undefined, html |-> Undefined,
     attachments |-> Undefined]

\* this.headers[key]
Get(h, key) ==
    IF \E i \in 1..Len(h) : h[i].key = key
    THEN Str(h[CHOOSE i \in 1..Len(h) : h[i].key = key].value)
    ELSE Undefined

\* this.headers[key] = value: an existing key keeps its place, a new one goes last
Set(h, key, value) ==
    IF \E i \in 1..Len(h) : h[i].key = key
    THEN [i \in 1..Len(h) |-> IF h[i].key = key THEN Entry(key, value) ELSE h[i]]
    ELSE Append(h, Entry(key, value))

\* `${user.name} <${user.email}>` when the name is truthy, else the email
formatUser(user) ==
    IF Truthy(user.name) THEN user.name.s \o <<" ","<">> \o user.email \o <<">">> ELSE user.email

formatUsers(users) ==
    Join([i \in 1..Len(users.items) |-> formatUser(users.items[i])], <<","," ">>)

resolveFrom(e, h) == Set(h, <<"F","r","o","m">>, formatUser(e.from))

resolveTo(e, h) == Set(h, <<"T","o">>, formatUsers(e.to))

resolveReply(e, h) == IF Truthy(e.reply) THEN Set(h, <<"R","e","p","l","y","-","T","o">>, formatUser(e.reply)) ELSE h

resolveCC(e, h) == IF Truthy(e.cc) THEN Set(h, <<"C","C">>, formatUsers(e.cc)) ELSE h

resolveBCCEmitted(e, h) == IF Truthy(e.bcc) THEN Set(h, <<"B","C","C">>, formatUsers(e.bcc)) ELSE h

\* bccAddresses is computed and dropped: the assignment is commented out
resolveBCC(e, h) ==
    IF Truthy(e.bcc) THEN (LET bccAddresses == formatUsers(e.bcc) IN h) ELSE h

resolveSubject(e, h) == Set(h, <<"S","u","b","j","e","c","t">>, <<"=","?","u","t","f","-","8","?","b","?">> \o base64(e.subject) \o <<"?","=">>)

messageIdFirstAt(e, h, uuid) ==
    IF Truthy(Get(h, <<"M","e","s","s","a","g","e","-","I","D">>)) THEN Get(h, <<"M","e","s","s","a","g","e","-","I","D">>).s
    ELSE <<"<">> \o uuid \o <<"@">> \o
         (LET parts == Split(e.from.email, "@") IN parts[Min(2, Len(parts))]) \o <<">">>

messageIdRegenerated(e, h, uuid) ==
    <<"<">> \o uuid \o <<"@">> \o Pop(Split(e.from.email, "@")) \o <<">">>

\* this.headers['Message-ID'] || `<${crypto.randomUUID()}@${this.from.email.split('@').pop()}>`
messageId(e, h, uuid) ==
    IF Truthy(Get(h, <<"M","e","s","s","a","g","e","-","I","D">>)) THEN Get(h, <<"M","e","s","s","a","g","e","-","I","D">>).s
    ELSE <<"<">> \o uuid \o <<"@">> \o Pop(Split(e.from.email, "@")) \o <<">">>

\* resolveHeader, for an Email whose `to` is an array
resolveHeader(e, h, t, uuid) ==
    LET h1 == resolveFrom(e, h)
        h2 == resolveTo(e, h1)
        h3 == resolveReply(e, h2)
        h4 == resolveCC(e, h3)
        h5 == resolveBCC(e, h4)
        h6 == resolveSubject(e, h5)
        h7 == Set(h6, <<"D","a","t","e">>, toUTCString(t))
    IN  Set(h7, <<"M","e","s","s","a","g","e","-","I","D">>, messageId(e, h7, uuid))

\* resolveTo reads this.to.map: a TypeError when `to` is undefined
resolveHeaderThrows(e) == e.to.kind = "undefined"

\* the characters generateSafeBoundary replaces
UnsafeBoundaryChars == {"<", ">", "@", ",", ";", ":", "\\", "/", "[", "]", "?", "=", "\"", " "}

\* generateSafeBoundary, hex being crypto.randomBytes(28).toString('hex')
generateSafeBoundary(prefix, hex) ==
    LET boundary == prefix \o hex
    IN  [i \in 1..Len(boundary) |->
            IF boundary[i] \in UnsafeBoundaryChars THEN "_" ELSE boundary[i]]

\* the own properties of mimeTypes
mimeTypes ==
    {Entry(<<"t","x","t">>, <<"t","e","x","t","/","p","l","a","i","n">>), Entry(<<"h","t","m","l">>, <<"t","e","x","t","/","h","t","m","l">>), Entry(<<"c","s","v">>, <<"t","e","x","t","/","c","s","v">>),
     Entry(<<"p","d","f">>, <<"a","p","p","l","i","c","a","t","i","o","n","/","p","d","f">>), Entry(<<"p","n","g">>, <<"i","m","a","g","e","/","p","n","g">>),
     Entry(<<"j","p","g">>, <<"i","m","a","g","e","/","j","p","e","g">>), Entry(<<"j","p","e","g">>, <<"i","m","a","g","e","/","j","p","e","g">>),
     Entry(<<"g","i","f">>, <<"i","m","a","g","e","/","g","i","f">>), Entry(<<"z","i","p">>, <<"a","p","p","l","i","c","a","t","i","o","n","/","z","i","p">>)}

\* the lower-case properties mimeTypes inherits from Object.prototype, as a
\* template literal prints them
inheritedProperties ==
    {Entry(<<"c","o","n","s","t","r","u","c","t","o","r">>, <<"f","u","n","c","t","i","o","n"," ","O","b","j","e","c","t","(",")"," ","{"," ","[","n","a","t","i","v","e"," ","c","o","d","e","]"," ","}">>),
     Entry(<<"_","_","p","r","o","t","o","_","_">>, <<"[","o","b","j","e","c","t"," ","O","b","j","e","c","t","]">>)}

\* mimeTypes[key]
lookup(key) ==
    LET hits == {p \in mimeTypes \cup inheritedProperties : p.key = key}
    IN  IF hits = {} THEN Undefined ELSE Str((CHOOSE p \in hits : TRUE).value)

getMimeType(filename) ==
    LET extension == toLowerCase(Pop(Split(filename, ".")))
        found == lookup(IF extension # <<>> THEN extension ELSE <<"t","x","t">>)
    IN  IF Truthy(found) THEN found.s ELSE <<"a","p","p","l","i","c","a","t","i","o","n","/","o","c","t","e","t","-","s","t","r","e","a","m">>

\* \s of a regular expression, among the characters drawn here
IsSpace(c) == c \in {" ", "\t", "\n", "\r"}

\* text.match(/\S+/g) || []: the maximal runs of non-whitespace, in order
Words(text) ==
    LET starts == {i \in 1..Len(text) :
                      ~IsSpace(text[i]) /\ (i = 1 \/ IsSpace(text[i - 1]))}
        stops == {j \in 1..Len(text) :
                      ~IsSpace(text[j]) /\ (j = Len(text) \/ IsSpace(text[j + 1]))}
    IN  [k \in 1..Cardinality(starts) |-> SubSeq(text, Nth(starts, k), Nth(stops, k))]

\* for (i = 0; i < s.length; i += n) s.slice(i, i + n); also s.match(/.{1,n}/g) of
\* a string without line terminators
Chunks(s, n) ==
    [k \in 1..((Len(s) + n - 1) \div n) |-> SubSeq(s, (k - 1) * n + 1, Min(k * n, Len(s)))]

fitsWithoutSpace(currentLine, word, maxLength) ==
    Len(currentLine) + Len(word) <= maxLength

\* currentLine.length + word.length + (currentLine ? 1 : 0) <= maxLength
fits(currentLine, word, maxLength) ==
    Len(currentLine) + Len(word) + (IF currentLine # <<>> THEN 1 ELSE 0) <= maxLength

\* the loop of wrapText over the words left, and the final push
RECURSIVE wrapLoop(_, _, _, _)
wrapLoop(words, lines, currentLine, maxLength) ==
    IF words = <<>>
    THEN IF currentLine # <<>> THEN Append(lines, currentLine) ELSE lines
    ELSE LET word == Head(words)
         IN  IF Len(word) > maxLength
             THEN wrapLoop(Tail(words),
                           (IF currentLine # <<>> THEN Append(lines, currentLine) ELSE lines)
                               \o Chunks(word, maxLength),
                           <<>>, maxLength)
             ELSE IF fits(currentLine, word, maxLength)
             THEN wrapLoop(Tail(words), lines,
                           currentLine \o (IF currentLine # <<>> THEN <<" ">> ELSE <<>>) \o word,
                           maxLength)
             ELSE wrapLoop(Tail(words), Append(lines, currentLine), word, maxLength)

wrapText(text, maxLength) == wrapLoop(Words(text), <<>>, <<>>, maxLength)

\* line lengths of getEmailData
TextLineLimit == 998
Base64LineLimit == 76
AttachmentLineLimit == 72

\* `${lines.join('\r\n')}\r\n\r\n` as lines: the joined lines, then an empty line
joinedBlock(lines) == (IF lines = <<>> THEN << <<>> >> ELSE lines) \o << <<>> >>

\* one attachment's part, lines 153-169
attachmentPart(attachment, mixedBoundary, t) ==
    LET mimeType == IF Truthy(attachment.mimeType) THEN attachment.mimeType.s
                    ELSE getMimeType(attachment.filename)
    IN  << <<"-","-">> \o mixedBoundary,
           <<"C","o","n","t","e","n","t","-","T","y","p","e",":"," ">> \o mimeType \o <<";"," ","n","a","m","e","=","\"">> \o attachment.filename \o <<"\"">>,
           <<"C","o","n","t","e","n","t","-","D","e","s","c","r","i","p","t","i","o","n",":"," ">> \o attachment.filename,
           <<"C","o","n","t","e","n","t","-","D","i","s","p","o","s","i","t","i","o","n",":"," ","a","t","t","a","c","h","m","e","n","t",";"," ","f","i","l","e","n","a","m","e","=","\"">> \o attachment.filename \o <<"\"",";">>,
           <<" "," "," "," ","c","r","e","a","t","i","o","n","-","d","a","t","e","=","\"">> \o toUTCString(t) \o <<"\"",";">>,
           <<"C","o","n","t","e","n","t","-","T","r","a","n","s","f","e","r","-","E","n","c","o","d","i","n","g",":"," ","b","a","s","e","6","4">>,
           <<>> >>
        \o joinedBlock(Chunks(attachment.content, AttachmentLineLimit))

RECURSIVE attachmentParts(_, _, _)
attachmentParts(attachments, mixedBoundary, t) ==
    IF attachments = <<>> THEN <<>>
    ELSE attachmentPart(Head(attachments), mixedBoundary, t)
         \o attachmentParts(Tail(attachments), mixedBoundary, t)

\* headersArray of getEmailData: MIME-Version, the entries of this.headers in
\* order, then the top-level Content-Type
headersArray(h, mixedBoundary) ==
    <<<<"M","I","M","E","-","V","e","r","s","i","o","n",":"," ","1",".","0">>>>
    \o [i \in 1..Len(h) |-> h[i].key \o <<":"," ">> \o h[i].value]
    \o <<<<"C","o","n","t","e","n","t","-","T","y","p","e",":"," ","m","u","l","t","i","p","a","r","t","/","m","i","x","e","d",";"," ","b","o","u","n","d","a","r","y","=","\"">> \o mixedBoundary \o <<"\"">>>>

\* getEmailData after resolveHeader: the payload, line by line
emailData(e, h, t, mixedBoundary, alternativeBoundary) ==
    LET textPart ==
            IF Truthy(e.text)
            THEN << <<"-","-">> \o alternativeBoundary,
                    <<"C","o","n","t","e","n","t","-","T","y","p","e",":"," ","t","e","x","t","/","p","l","a","i","n",";"," ","c","h","a","r","s","e","t","=","\"","u","t","f","-","8","\"">>,
                    <<>> >>
                 \o joinedBlock(wrapText(e.text.s, TextLineLimit))
            ELSE <<>>
        htmlPart ==
            IF Truthy(e.html)
            THEN << <<"-","-">> \o alternativeBoundary,
                    <<"C","o","n","t","e","n","t","-","T","y","p","e",":"," ","t","e","x","t","/","h","t","m","l",";"," ","c","h","a","r","s","e","t","=","\"","u","t","f","-","8","\"">>,
                    <<"C","o","n","t","e","n","t","-","T","r","a","n","s","f","e","r","-","E","n","c","o","d","i","n","g",":"," ","b","a","s","e","6","4">>,
                    <<>> >>
                 \o joinedBlock(wrapText(base64(e.html.s), Base64LineLimit))
            ELSE <<>>
    IN  headersArray(h, mixedBoundary) \o << <<>> >>
        \o << <<"-","-">> \o mixedBoundary,
              <<"C","o","n","t","e","n","t","-","T","y","p","e",":"," ","m","u","l","t","i","p","a","r","t","/","a","l","t","e","r","n","a","t","i","v","e",";"," ","b","o","u","n","d","a","r","y","=","\"">> \o alternativeBoundary \o <<"\"">>,
              <<>> >>
        \o textPart
        \o htmlPart
        \o << <<"-","-">> \o alternativeBoundary \o <<"-","-">> >>
        \o (IF Truthy(e.attachments)
            THEN attachmentParts(e.attachments.items, mixedBoundary, t)
            ELSE <<>>)
        \o << <<"-","-">> \o mixedBoundary \o <<"-","-">>, <<".">> >>

\* setSent is the promise's resolve: it settles a pending promise, once
resolve(p) == IF p.state = "pending" THEN [state |-> "fulfilled", reason |-> "none"] ELSE p

rejectOverwrites(p, e) == [state |-> "rejected", reason |-> e]

\* setSentError is the promise's reject
reject(p, e) == IF p.state = "pending" THEN [state |-> "rejected", reason |-> e] ELSE p

---------------------------------------------------------------------------
(* The inputs drawn *)

\* crypto.randomUUID(), shortened
UUIDs == {<<"1","b","4","e","2","8","b","a">>, <<"9","f","7","c","0","d","3","e">>}
\* crypto.randomBytes(28).toString('hex'), shortened
RandomHex == {<<"a","1">>, <<"b","2">>}
\* the two draws of one getEmailData call: different, or the same bytes twice
BoundaryDraws ==
    {[mixed |-> <<"a","1">>, alternative |-> <<"b","2">>], [mixed |-> <<"b","2">>, alternative |-> <<"b","2">>]}
\* the errors a transport hands to setSentError
Errors == {"e1", "e2"}

BaseOptions ==
    [from |-> Str(<<"a","@","x">>), to |-> Str(<<"b","@","x">>), reply |-> Undefined, cc |-> Undefined,
     bcc |-> Undefined, subject |-> <<"H","i">>, text |-> Str(<<"h","e","l","l","o">>), html |-> Undefined,
     headers |-> Undefined, attachments |-> Undefined]

\* a word one character longer than the plain-text line limit
LongWord == [i \in 1..(TextLineLimit + 1) |-> "a"]
\* an HTML body whose base64 form is longer than one line
LongHtml == [i \in 1..(Base64LineLimit - 16) |-> "h"]
\* an attachment content longer than one line
LongContent == [i \in 1..(AttachmentLineLimit + 1) |-> "A"]

Texts == {Undefined, Str(<<>>), Str(<<"h","e","l","l","o">>), Str(<<".">>), Str(<<"s","e","e","\n","t","h","e"," ",".","\t","e","n","d">>),
          Str(LongWord \o <<" ",".">>)}
Htmls == {Undefined, Str(<<>>), Str(<<"<","p",">",".","<","/","p",">">>), Str(LongHtml)}
Froms == {Str(<<"a","@","x">>), Str(<<"a","x">>), Str(<<"\"","a","@","b","\"","@","y">>), User(Str(<<"A","l">>), <<"a","@","x">>), User(Str(<<>>), <<"a","@","x">>)}
Tos == {Str(<<>>), Str(<<"b","@","x">>), User(Undefined, <<"b","@","x">>), Arr(<<>>),
        Arr(<<Str(<<"b","@","x">>), User(Str(<<"C","y">>), <<"c","@","x">>)>>),
        Arr(<<User(Str(<<"C","y">>), <<"c","@","x">>), Str(<<"b","@","x">>)>>)}
Replies == {Undefined, User(Str(<<"R","o">>), <<"r","@","x">>), Str(<<>>)}
Ccs == {Undefined, Arr(<<Str(<<"c","@","x">>), User(Str(<<"D","i">>), <<"d","@","x">>)>>), Arr(<<>>)}
Bccs == {Undefined, Str(<<"d","@","x">>), Arr(<<User(Str(<<"D","i">>), <<"d","@","x">>), Str(<<"b","@","x">>)>>), Arr(<<>>)}
CustomHeaders ==
    {Undefined, HeaderMap(<<>>),
     HeaderMap(<<Entry(<<"X","-","T","a","g">>, <<"v","1">>)>>),
     HeaderMap(<<Entry(<<"S","u","b","j","e","c","t">>, <<"z">>), Entry(<<"F","r","o","m">>, <<"z","@","x">>), Entry(<<"X","-","T","a","g">>, <<"v","1">>),
                 Entry(<<"D","a","t","e">>, <<"z">>), Entry(<<"T","o">>, <<"z","@","x">>)>>),
     HeaderMap(<<Entry(<<"R","e","p","l","y","-","T","o">>, <<"z","@","x">>), Entry(<<"C","C">>, <<"z","@","x">>)>>)}
BccHeaders ==
    {Undefined, HeaderMap(<<Entry(<<"B","C","C">>, <<"d","@","x">>)>>), HeaderMap(<<Entry(<<"X","-","T","a","g">>, <<"v","1">>)>>)}
MessageIdHeaders ==
    {Undefined, HeaderMap(<<Entry(<<"M","e","s","s","a","g","e","-","I","D">>, <<>>)>>),
     HeaderMap(<<Entry(<<"X","-","T","a","g">>, <<"v","1">>), Entry(<<"M","e","s","s","a","g","e","-","I","D">>, <<"<","m","@","i",">">>)>>)}
AttachmentLists ==
    {Arr(<<>>),
     Arr(<<Attachment(<<"a",".","p","d","f">>, <<"Q","U","J","D">>, Undefined)>>),
     Arr(<<Attachment(<<"n","o","t","e","s">>, <<".">>, Str(<<"t","e","x","t","/","x","-","n","o","t","e">>)),
           Attachment(<<"b",".","P","N","G">>, LongContent, Undefined)>>),
     Arr(<<Attachment(<<"c",".">>, <<>>, Str(<<>>))>>)}

\* the options drawn: each family varies some fields of BaseOptions
Options ==
    {[BaseOptions EXCEPT !.text = t, !.html = h] : t \in Texts, h \in Htmls}
    \cup {[BaseOptions EXCEPT !.to = t, !.text = x, !.html = Str(<<"<","p",">",".","<","/","p",">">>)] :
            t \in Tos, x \in {Undefined, Str(<<"h","e","l","l","o">>)}}
    \cup {[BaseOptions EXCEPT !.headers = h, !.reply = r, !.cc = c] :
            h \in CustomHeaders, r \in Replies, c \in Ccs}
    \cup {[BaseOptions EXCEPT !.bcc = b, !.headers = h] : b \in Bccs, h \in BccHeaders}
    \cup {[BaseOptions EXCEPT !.from = f, !.headers = h] : f \in Froms, h \in MessageIdHeaders}
    \cup {[BaseOptions EXCEPT !.attachments = a, !.html = h] :
            a \in AttachmentLists, h \in {Undefined, Str(<<"<","p",">",".","<","/","p",">">>)}}

NoCall ==
    [threw |-> FALSE, data |-> <<>>, before |-> <<>>, at |-> 0, uuid |-> <<>>,
     mixed |-> <<>>, alternative |-> <<>>]
NoSettle == [call |-> "none", e |-> "none"]
NoPromise == [state |-> "absent", reason |-> "none"]
NoArg == [kind |-> "undefined"]
NoRet == [done |-> FALSE, value |-> <<>>]

---------------------------------------------------------------------------
(* The life of one Email *)

Init ==
    /\ phase = "new"
    /\ options \in Options
    /\ email = NoEmail
    /\ headers = <<>>
    /\ sent = NoPromise
    /\ settles = NoSettle
    /\ now = 0
    /\ ncalls = 0
    /\ first = NoCall
    /\ last = NoCall
    /\ arg = NoArg
    /\ ret = NoRet

\* new Email(options): the promise is created, then the constructor throws or
\* assigns the fields
Construct ==
    /\ phase = "new"
    /\ IF constructorThrows(options)
       THEN /\ phase' = "threw"
            /\ UNCHANGED <<email, headers, sent>>
       ELSE /\ phase' = "live"
            /\ email' = construct(options)
            /\ headers' = constructHeaders(options)
            /\ sent' = [state |-> "pending", reason |-> "none"]
    /\ UNCHANGED <<options, settles, now, ncalls, first, last, arg, ret>>

\* email.getEmailData(), with what the random source returns: randomUUID is
\* called only when no truthy Message-ID is there yet
GetEmailData ==
    /\ phase = "live"
    /\ ncalls < MaxCalls
    /\ \E uuid \in (IF Truthy(Get(headers, <<"M","e","s","s","a","g","e","-","I","D">>)) THEN {<<>>} ELSE UUIDs),
          hex \in BoundaryDraws :
        LET mixedBoundary == generateSafeBoundary(<<"m","i","x","e","d","_">>, hex.mixed)
            alternativeBoundary == generateSafeBoundary(<<"a","l","t","e","r","n","a","t","i","v","e","_">>, hex.alternative)
            h == resolveHeader(email, headers, now, uuid)
            call == IF resolveHeaderThrows(email)
                    THEN [NoCall EXCEPT !.threw = TRUE, !.before = headers, !.at = now]
                    ELSE [threw |-> FALSE,
                          before |-> headers,
                          data |-> emailData(email, h, now, mixedBoundary, alternativeBoundary),
                          at |-> now,
                          uuid |-> uuid,
                          mixed |-> mixedBoundary,
                          alternative |-> alternativeBoundary]
        IN  /\ headers' = IF resolveHeaderThrows(email) THEN resolveFrom(email, headers) ELSE h
            /\ last' = call
            /\ first' = IF ncalls = 0 THEN call ELSE first
    /\ ncalls' = ncalls + 1
    /\ UNCHANGED <<phase, options, email, sent, settles, now, arg, ret>>

\* email.setSent()
SetSent ==
    /\ phase = "live"
    /\ sent' = resolve(sent)
    /\ settles' = IF settles.call = "none" THEN [call |-> "setSent", e |-> "none"] ELSE settles
    /\ UNCHANGED <<phase, options, email, headers, now, ncalls, first, last, arg, ret>>

\* email.setSentError(e)
SetSentError ==
    /\ phase = "live"
    /\ \E e \in Errors :
        /\ sent' = reject(sent, e)
        /\ settles' = IF settles.call = "none" THEN [call |-> "setSentError", e |-> e] ELSE settles
    /\ UNCHANGED <<phase, options, email, headers, now, ncalls, first, last, arg, ret>>

\* a second passes
Tick ==
    /\ now < MaxTime
    /\ now' = now + 1
    /\ UNCHANGED <<phase, options, email, headers, sent, settles, ncalls, first, last, arg, ret>>

Next == Construct \/ GetEmailData \/ SetSent \/ SetSentError \/ Tick

Spec == Init /\ [][Next]_vars

---------------------------------------------------------------------------
(* wrapText applied on its own *)

WrapAlphabet == {"a", ".", " ", "\n"}
WrapTexts == UNION {[1..n -> WrapAlphabet] : n \in 0..MaxLen}

InitWrap ==
    /\ phase = "new"
    /\ options = BaseOptions
    /\ email = NoEmail
    /\ headers = <<>>
    /\ sent = NoPromise
    /\ settles = NoSettle
    /\ now = 0
    /\ ncalls = 0
    /\ first = NoCall
    /\ last = NoCall
    /\ arg \in [text : WrapTexts, maxLength : 1..MaxLimit]
    /\ ret = NoRet

ApplyWrapText ==
    /\ ~ret.done
    /\ ret' = [done |-> TRUE, value |-> wrapText(arg.text, arg.maxLength)]
    /\ UNCHANGED <<phase, options, email, headers, sent, settles, now, ncalls, first, last, arg>>

NextWrap == ApplyWrapText

SpecWrap == InitWrap /\ [][NextWrap]_vars

---------------------------------------------------------------------------
(* one attachment's part composed on its own *)

Stems == {<<>>, <<"a">>, <<"a",".">>, <<"a",".","b",".">>, <<".">>}
Extensions ==
    {p.key : p \in mimeTypes}
    \cup {<<"T","X","T">>, <<"H","t","m","l">>, <<"C","S","V">>, <<"P","d","f">>, <<"P","N","G">>, <<"J","P","G">>, <<"J","p","e","g">>, <<"G","I","F">>, <<"Z","I","P">>}
    \cup {<<>>, <<"b","i","n">>, <<"t","a","r">>, <<"c","o","n","s","t","r","u","c","t","o","r">>, <<"_","_","p","r","o","t","o","_","_">>, <<"x">>}
Filenames == {s \o x : s \in Stems, x \in Extensions}
MimeTypeOptions == {Undefined, Str(<<>>), Str(<<"t","e","x","t","/","x","-","n","o","t","e">>)}

InitMime ==
    /\ phase = "new"
    /\ options = BaseOptions
    /\ email = NoEmail
    /\ headers = <<>>
    /\ sent = NoPromise
    /\ settles = NoSettle
    /\ now = 0
    /\ ncalls = 0
    /\ first = NoCall
    /\ last = NoCall
    /\ arg \in {Attachment(f, <<"Q","U","J","D">>, m) : f \in Filenames, m \in MimeTypeOptions}
    /\ ret = NoRet

ApplyAttachmentPart ==
    /\ ~ret.done
    /\ \E hex \in RandomHex :
        ret' = [done |-> TRUE,
                value |-> attachmentPart(arg, generateSafeBoundary(<<"m","i","x","e","d","_">>, hex), now)]
    /\ UNCHANGED <<phase, options, email, headers, sent, settles, now, ncalls, first, last, arg>>

NextMime == ApplyAttachmentPart

SpecMime == InitMime /\ [][NextMime]_vars

---------------------------------------------------------------------------
(* Reading a payload *)

\* the getEmailData calls made so far that returned a payload
Returned == IF ncalls = 0 THEN {} ELSE {c \in {first, last} : ~c.threw}

\* index of the empty line that ends the header block
HeaderEnd(data) ==
    CHOOSE i \in 1..Len(data) : data[i] = <<>> /\ \A j \in 1..(i - 1) : data[j] # <<>>
HeaderLines(data) == SubSeq(data, 1, HeaderEnd(data) - 1)

\* the values of the header lines "key: value" of a payload
HeaderValues(data, key) ==
    LET lines == HeaderLines(data)
    IN  {SubSeq(lines[i], Len(key) + 3, Len(lines[i])) :
            i \in {j \in 1..Len(lines) : HasPrefix(lines[j], key \o <<":"," ">>)}}

\* a value is provided when it is a non-empty string
Provided(v) == v.kind = "string" /\ Len(v.s) > 0

\* the values the caller's custom headers map holds for a key
Custom(key) ==
    IF options.headers.kind = "undefined" THEN {}
    ELSE {options.headers.entries[i].value :
            i \in {j \in 1..Len(options.headers.entries) :
                      options.headers.entries[j].key = key}}

---------------------------------------------------------------------------
(* The claims *)

\* C1: construction throws exactly when neither text nor html is provided (absent
\* or empty); every other input, whatever its from, to, reply, cc, bcc, headers
\* and attachments, constructs an Email.
C1ThrowsIffNoBody ==
    phase # "new" =>
        /\ (phase = "threw") <=> (~Provided(options.text) /\ ~Provided(options.html))
        /\ (phase = "live") <=> (Provided(options.text) \/ Provided(options.html))

\* both are given and empty: the constructor has thrown
C1Witness == phase = "threw" /\ options.text = Str(<<>>) /\ options.html = Str(<<>>)

\* the addresses of the bcc list
BccAddresses ==
    IF email.bcc.kind = "array"
    THEN {email.bcc.items[i].email : i \in 1..Len(email.bcc.items)}
    ELSE {}

\* C2 as stated: no header line of a payload is a BCC header or contains a bcc
\* address, whatever the custom headers map.
C2NoBccInHeaders ==
    \A c \in Returned : \A i \in 1..Len(HeaderLines(c.data)) :
        /\ ~HasPrefix(HeaderLines(c.data)[i], <<"B","C","C",":"," ">>)
        /\ \A b \in BccAddresses : ~Includes(HeaderLines(c.data)[i], b)

\* C2 amended: getEmailData derives no header from the bcc list. Each call that
\* returns emits the header lines, and leaves the headers map, that the same Email
\* without its bcc list gives from the same headers map with the same clock and
\* random values; and a BCC header line is emitted only when the custom headers map
\* holds a BCC key.
C2HeadersIgnoreBcc ==
    \A c \in Returned :
        LET e0 == [email EXCEPT !.bcc = Undefined]
            h0 == resolveHeader(e0, c.before, c.at, c.uuid)
        IN  /\ HeaderLines(c.data) = headersArray(h0, c.mixed)
            /\ (c = last => headers = h0)
            /\ (HeaderValues(c.data, <<"B","C","C">>) # {} => Custom(<<"B","C","C">>) # {})

\* a payload was returned for an Email with two bcc addresses
C2Witness ==
    /\ ncalls = 2
    /\ ~last.threw
    /\ email.bcc.kind = "array"
    /\ Len(email.bcc.items) = 2
    /\ HeaderValues(last.data, <<"B","C","C">>) = {}

\* C3 as stated: From, To, Subject and Date carry the computed values; Reply-To and
\* CC carry the computed value when reply or cc was given and are not emitted
\* otherwise; caller-supplied values for these keys never survive.
C3ReservedComputed ==
    \A c \in Returned :
        /\ HeaderValues(c.data, <<"F","r","o","m">>) = {formatUser(email.from)}
        /\ HeaderValues(c.data, <<"T","o">>) = {formatUsers(email.to)}
        /\ HeaderValues(c.data, <<"S","u","b","j","e","c","t">>) = {<<"=","?","u","t","f","-","8","?","b","?">> \o base64(email.subject) \o <<"?","=">>}
        /\ HeaderValues(c.data, <<"D","a","t","e">>) = {toUTCString(c.at)}
        /\ HeaderValues(c.data, <<"R","e","p","l","y","-","T","o">>) =
               (IF options.reply.kind # "undefined" THEN {formatUser(email.reply)} ELSE {})
        /\ HeaderValues(c.data, <<"C","C">>) =
               (IF options.cc.kind # "undefined" THEN {formatUsers(email.cc)} ELSE {})

\* the extension the claim speaks of: what follows the last dot of a name with a dot
HasDot(filename) == \E i \in 1..Len(filename) : filename[i] = "."
ExtensionOf(filename) ==
    LET dots == {i \in 1..Len(filename) : filename[i] = "."}
        lastDot == CHOOSE i \in dots : \A j \in dots : j <= i
    IN  SubSeq(filename, lastDot + 1, Len(filename))

\* the Content-Type the claim gives an attachment
ClaimedMimeType(attachment) ==
    IF Provided(attachment.mimeType) THEN attachment.mimeType.s
    ELSE IF /\ HasDot(attachment.filename)
            /\ \E p \in mimeTypes : p.key = toLowerCase(ExtensionOf(attachment.filename))
         THEN (CHOOSE p \in mimeTypes :
                  p.key = toLowerCase(ExtensionOf(attachment.filename))).value
         ELSE <<"a","p","p","l","i","c","a","t","i","o","n","/","o","c","t","e","t","-","s","t","r","e","a","m">>

\* C4 as stated: the Content-Type of an attachment's part is its explicit mimeType,
\* else the table entry of the lower-cased extension, else application/octet-stream
\* (unknown extension, no dot in the name, nothing after the last dot).
C4ContentType ==
    ret.done =>
        ret.value[2] = <<"C","o","n","t","e","n","t","-","T","y","p","e",":"," ">> \o ClaimedMimeType(arg)
                           \o <<";"," ","n","a","m","e","=","\"">> \o arg.filename \o <<"\"">>

\* the emails of the `to` input, in input order
InputEmails(v) ==
    IF v.kind = "string" THEN <<v.s>>
    ELSE IF v.kind = "object" THEN <<v.email>>
    ELSE [i \in 1..Len(v.items) |->
            IF v.items[i].kind = "string" THEN v.items[i].s ELSE v.items[i].email]

\* C5 as stated: a constructed Email has a non-empty `to` list holding the
\* addresses of the input in input order, before and after getEmailData calls.
C5ToNonEmpty ==
    phase = "live" =>
        /\ email.to.kind = "array"
        /\ Len(email.to.items) >= 1
        /\ [i \in 1..Len(email.to.items) |-> email.to.items[i].email] = InputEmails(options.to)

\* the part of an address after its last @ (all of it when it holds none)
DomainOf(address) ==
    LET ats == {i \in 1..Len(address) : address[i] = "@"}
    IN  IF ats = {} THEN address
        ELSE SubSeq(address, (CHOOSE i \in ats : \A j \in ats : j <= i) + 1, Len(address))

\* C6: with a non-empty Message-ID in the custom headers map every call emits
\* exactly that value; otherwise every call emits the <uuid@domain> generated by the
\* first call, the domain being what follows the last @ of from.email.
C6MessageId ==
    \A c \in Returned :
        IF \E v \in Custom(<<"M","e","s","s","a","g","e","-","I","D">>) : v # <<>>
        THEN HeaderValues(c.data, <<"M","e","s","s","a","g","e","-","I","D">>) = Custom(<<"M","e","s","s","a","g","e","-","I","D">>)
        ELSE /\ first.uuid \in UUIDs
             /\ HeaderValues(c.data, <<"M","e","s","s","a","g","e","-","I","D">>) =
                    {<<"<">> \o first.uuid \o <<"@">> \o DomainOf(email.from.email) \o <<">">>}

\* a second call returned a generated Message-ID for a from address with two @
C6Witness ==
    /\ ncalls = 2
    /\ ~last.threw
    /\ Custom(<<"M","e","s","s","a","g","e","-","I","D">>) = {}
    /\ email.from.email = <<"\"","a","@","b","\"","@","y">>
    /\ HeaderValues(last.data, <<"M","e","s","s","a","g","e","-","I","D">>) = {<<"<">> \o first.uuid \o <<"@","y",">">>}

\* every occurrence of a non-empty pattern replaced
RECURSIVE ReplaceAll(_, _, _)
ReplaceAll(s, pattern, by) ==
    IF ~Includes(s, pattern) THEN s
    ELSE LET i == CHOOSE k \in 1..(Len(s) - Len(pattern) + 1) :
                      /\ SubSeq(s, k, k + Len(pattern) - 1) = pattern
                      /\ \A j \in 1..(k - 1) : SubSeq(s, j, j + Len(pattern) - 1) # pattern
         IN  SubSeq(s, 1, i - 1) \o by
                 \o ReplaceAll(SubSeq(s, i + Len(pattern), Len(s)), pattern, by)

\* a payload with its Date header value and its two boundary strings masked
Masked(c) ==
    [i \in 1..Len(c.data) |->
        IF i < HeaderEnd(c.data) /\ HasPrefix(c.data[i], <<"D","a","t","e",":"," ">>) THEN <<"D","a","t","e",":"," ">>
        ELSE ReplaceAll(ReplaceAll(c.data[i], c.mixed, <<"M","I","X","E","D">>), c.alternative, <<"A","L","T","E","R","N","A","T","I","V","E">>)]

\* the same, with the creation-date parameter of the attachment parts masked too
MaskedWithCreationDate(c) ==
    [i \in 1..Len(c.data) |->
        IF i > HeaderEnd(c.data) /\ HasPrefix(c.data[i], <<" "," "," "," ","c","r","e","a","t","i","o","n","-","d","a","t","e","=","\"">>)
        THEN <<" "," "," "," ","c","r","e","a","t","i","o","n","-","d","a","t","e","=","\"","\"">>
        ELSE Masked(c)[i]]

\* C7 as stated: two calls on one Email return payloads that are equal once the
\* Date header value and the two boundary strings are masked out.
C7EqualMasked ==
    (ncalls >= 2 /\ ~first.threw /\ ~last.threw) => Masked(first) = Masked(last)

\* C7 amended: they are equal once the Date header value, the two boundary strings
\* and the creation-date parameter of every attachment part are masked out.
C7EqualMaskedWithCreationDate ==
    (ncalls >= 2 /\ ~first.threw /\ ~last.threw) =>
        MaskedWithCreationDate(first) = MaskedWithCreationDate(last)

\* two calls at different times, with other boundaries, on an Email with attachments
C7Witness ==
    /\ ncalls = 2
    /\ ~first.threw /\ ~last.threw
    /\ first.at # last.at
    /\ first.mixed # last.mixed
    /\ email.attachments.kind = "array"
    /\ Len(email.attachments.items) = 2
    /\ first.data # last.data

\* C8: the promise is pending until the first setSent or setSentError call, then
\* settled with that call's outcome, whatever calls follow; getEmailData does not
\* settle it.
C8SettledOnce ==
    phase = "live" =>
        /\ settles.call = "none" => sent = [state |-> "pending", reason |-> "none"]
        /\ settles.call = "setSent" => sent = [state |-> "fulfilled", reason |-> "none"]
        /\ settles.call = "setSentError" => sent = [state |-> "rejected", reason |-> settles.e]

\* rejected with the first call's error, after getEmailData calls
C8Witness == sent = [state |-> "rejected", reason |-> "e2"] /\ ncalls = 2

\* C9: every line wrapText returns is non-empty and at most maxLength characters
\* long; a text that is one word longer than maxLength is cut into consecutive
\* chunks of exactly maxLength characters, the last one possibly shorter.
C9LinesWithinLimit ==
    ret.done =>
        /\ \A i \in 1..Len(ret.value) :
              Len(ret.value[i]) >= 1 /\ Len(ret.value[i]) <= arg.maxLength
        /\ ((\A k \in 1..Len(arg.text) : ~IsSpace(arg.text[k])) /\ Len(arg.text) > arg.maxLength)
              => /\ Cat(ret.value) = arg.text
                 /\ \A i \in 1..(Len(ret.value) - 1) : Len(ret.value[i]) = arg.maxLength

\* a word, then a word longer than the limit cut in two chunks
C9Witness ==
    /\ ret.done
    /\ arg.maxLength = 2
    /\ arg.text = <<"a"," ","a","a","a">>
    /\ ret.value = <<<<"a">>, <<"a","a">>, <<"a">>>>

\* C10 as stated: the last line of a payload is its only line that is a single dot.
C10OneTerminator ==
    \A c \in Returned : \A i \in 1..Len(c.data) :
        c.data[i] = <<".">> <=> i = Len(c.data)

====
